---- MODULE Spec2Model ----
(***************************************************************************)
(* A model of the sleep.me API client (package sleepme, sleepme.go):       *)
(* construction by New, and the three calls ListDevices, Get and Update,   *)
(* each split at the one point where it blocks, c.Client.Do(req).          *)
(*                                                                         *)
(* JSON texts are sequences of tokens.  A response body is a sequence over *)
(* Tok; an object token stands for one complete, well-formed JSON object.  *)
(* A Go pointer is a sequence of length at most one (<<>> is nil).         *)
(***************************************************************************)
EXTENDS Integers, Sequences, FiniteSets, TLC

\* ------------------------------------------------------------------ bounds
MaxBody == 5
MaxOpts == 3

\* ------------------------------------------------------------- the domains
ProductionAPIEndpoint == "https://api.developer.sleep.me/v1"
TestEndpoint == "https://api.example.test/v1"
AltEndpoint == "http://localhost:8080/v1"

StatusOK == 200
Statuses == {200, 204, 404, 500}

Tokens == {"abc", "xyz"}
Callers == {"c1", "c2"}

\* A device identifier is not validated by the client.  BadID holds a control
\* character, which makes the formatted URL one http.NewRequest rejects.
GoodID == "d1"
BadID == "d\n"
DeviceIDs == {GoodID, BadID}

\* --------------------------------------------------------------- errors
NilErr == [kind |-> "nil", code |-> 0, detail |-> ""]
StatusError(code) == [kind |-> "status", code |-> code, detail |-> "expected 200, got %d"]
CodecError(what) == [kind |-> "codec", code |-> 0, detail |-> what]
URLError == [kind |-> "request", code |-> 0, detail |-> "invalid control character in URL"]
TransportError(what) == [kind |-> "transport", code |-> 0, detail |-> what]
ReadError == [kind |-> "read", code |-> 0, detail |-> "read of the response body failed"]

\* ------------------------------------------------------ results of a call
NilSlice == [isNil |-> TRUE, elems |-> <<>>]
Slice(s) == [isNil |-> FALSE, elems |-> s]
NilDetails == [isNil |-> TRUE, v |-> 0]
PtrDetails(v) == [isNil |-> FALSE, v |-> v]
Ret(devices, details, err) == [devices |-> devices, details |-> details, err |-> err]
NoRet == Ret(NilSlice, NilDetails, NilErr)

\* ------------------------------------------------- UpdateRequest and its JSON
\* The fields of UpdateRequest in declaration order, with their JSON keys.
Fields == <<"ThermalControlStatus", "SetTemperatureF", "SetTemperatureC",
            "DisplayTemperatureUnit", "TimeZone">>
JSONKey(f) ==
    CASE f = "ThermalControlStatus" -> "thermal_control_status"
      [] f = "SetTemperatureF" -> "set_temperature_f"
      [] f = "SetTemperatureC" -> "set_temperature_c"
      [] f = "DisplayTemperatureUnit" -> "display_temperature_unit"
      [] f = "TimeZone" -> "time_zone"
IsFloat(f) == f \in {"SetTemperatureF", "SetTemperatureC"}

ThermalControlStatusActive == "active"
ThermalControlStatusStandby == "standby"
DisplayTemperatureUnitC == "c"
DisplayTemperatureUnitF == "f"

\* The values a caller may point each field at; "NaN" is the float64 that
\* encoding/json cannot represent.
FieldValues(f) ==
    CASE f = "ThermalControlStatus" -> {ThermalControlStatusActive, ThermalControlStatusStandby}
      [] f = "SetTemperatureF" -> {"0", "70.5", "NaN"}
      [] f = "SetTemperatureC" -> {"0", "21"}
      [] f = "DisplayTemperatureUnit" -> {DisplayTemperatureUnitC, DisplayTemperatureUnitF}
      [] f = "TimeZone" -> {"", "UTC"}
Ptrs(S) == {<<>>} \cup {<<v>> : v \in S}
UpdateRequest ==
    [ThermalControlStatus : Ptrs(FieldValues("ThermalControlStatus")),
     SetTemperatureF : Ptrs(FieldValues("SetTemperatureF")),
     SetTemperatureC : Ptrs(FieldValues("SetTemperatureC")),
     DisplayTemperatureUnit : Ptrs(FieldValues("DisplayTemperatureUnit")),
     TimeZone : Ptrs(FieldValues("TimeZone"))]
EmptyUpdate ==
    [ThermalControlStatus |-> <<>>, SetTemperatureF |-> <<>>, SetTemperatureC |-> <<>>,
     DisplayTemperatureUnit |-> <<>>, TimeZone |-> <<>>]

\* omitempty on a pointer field: the field is left out exactly when the
\* pointer is nil; a pointer to a zero value ("" or 0) is written.
\* (variant: omitempty as it acts on a field that is no pointer)
MutOmitZeroValue(ptr) == ptr = <<>> \/ ptr[1] \in {"", "0"}
OmitEmpty(ptr) == ptr = <<>>

\* One member of the JSON object: the key and the encoded value, a number
\* written bare and a string written quoted.
\* A nil pointer that is not left out is written as null.
EncodeField(f, ptr) ==
    <<JSONKey(f), IF ptr = <<>> THEN <<"null", "">>
                  ELSE IF IsFloat(f) THEN <<"number", ptr[1]>>
                  ELSE <<"string", ptr[1]>>>>

RECURSIVE EncodeFrom(_, _)
EncodeFrom(r, i) ==
    IF i > Len(Fields) THEN <<>>
    ELSE LET f == Fields[i]
         IN  IF OmitEmpty(r[f]) THEN EncodeFrom(r, i + 1)
             ELSE <<EncodeField(f, r[f])>> \o EncodeFrom(r, i + 1)

\* json.NewEncoder(&bs).Encode(r): the object in field order, or an
\* UnsupportedValueError for a float that is not finite.
Encode(r) ==
    IF \E i \in 1..Len(Fields) : IsFloat(Fields[i]) /\ r[Fields[i]] = <<"NaN">>
    THEN [err |-> CodecError("UnsupportedValueError"), json |-> <<>>]
    ELSE [err |-> NilErr, json |-> EncodeFrom(r, 1)]

\* ------------------------------------------------------ response bodies
Obj == {"o1", "o2"}
Tok == {"[", "]", ","} \cup Obj
BodiesUpTo(n) == UNION {[1..k -> Tok] : k \in 0..n}

\* What an object token decodes to, as a Device or as a DeviceDetails; 0 is
\* the zero value of either struct.
Payload(t) == IF t = "o1" THEN 1 ELSE 2

\* The scanner of encoding/json over the value that starts at s[i]:
\* [ok, end, why], end the index after the value (or where scanning stopped).
Scanned(end) == [ok |-> TRUE, end |-> end, why |-> ""]
ScanFail(end, why) == [ok |-> FALSE, end |-> end, why |-> why]

RECURSIVE ScanValue(_, _)
RECURSIVE ScanElems(_, _, _)
ScanValue(s, i) ==
    IF i > Len(s) THEN ScanFail(i, IF i = 1 THEN "EOF" ELSE "unexpected EOF")
    ELSE IF s[i] \in Obj THEN Scanned(i + 1)
    ELSE IF s[i] = "[" THEN ScanElems(s, i + 1, TRUE)
    ELSE ScanFail(i + 1, "SyntaxError")
ScanElems(s, i, first) ==
    IF i > Len(s) THEN ScanFail(i, "unexpected EOF")
    ELSE IF first /\ s[i] = "]" THEN Scanned(i + 1)
    ELSE LET v == ScanValue(s, i)
         IN  IF ~v.ok THEN v
             ELSE IF v.end > Len(s) THEN ScanFail(v.end, "unexpected EOF")
             ELSE IF s[v.end] = "," THEN ScanElems(s, v.end + 1, FALSE)
             ELSE IF s[v.end] = "]" THEN Scanned(v.end + 1)
             ELSE ScanFail(v.end + 1, "SyntaxError")

\* The elements of the array whose "[" is at s[i - 1], the value at i being
\* the first: each top-level element as <<first index, index after it>>.
RECURSIVE ElemSpans(_, _)
ElemSpans(s, i) ==
    IF s[i] = "]" THEN <<>>
    ELSE LET v == ScanValue(s, i)
         IN  IF s[v.end] = "," THEN <<<<i, v.end>>>> \o ElemSpans(s, v.end + 1)
             ELSE <<<<i, v.end>>>>

\* Unmarshal of an array into []Device: one Device for each element, in the
\* order of the array; an element that is no object leaves a zero Device.
\* (variant: the elements in reverse order)
MutDevicesReversed(body, spans) ==
    [k \in 1..Len(spans) |->
        LET t == body[spans[Len(spans) + 1 - k][1]]
        IN  IF t \in Obj THEN Payload(t) ELSE 0]
DevicesOf(body, spans) ==
    [k \in 1..Len(spans) |->
        LET t == body[spans[k][1]]
        IN  IF t \in Obj THEN Payload(t) ELSE 0]

\* The error of a scan that failed.  The stream of a body ends in EOF or, when
\* it is broken (the connection fails, or the context is cancelled, after Do
\* has returned), in a read error; the scanner meets the end of the stream
\* only when it runs out of tokens inside a value.
ScanError(v, broken) ==
    IF broken /\ v.why \in {"EOF", "unexpected EOF"} THEN ReadError ELSE CodecError(v.why)

\* Decoder.Decode reads the first JSON value of the stream, stops there, and
\* unmarshals that value; what follows the value is never looked at.
\* Unmarshal records the first type mismatch and goes on.
\* [res, err, end]: end is how far the stream had to be read.
DecodeDevices(body, broken) ==
    LET v == ScanValue(body, 1)
    IN  IF ~v.ok THEN [res |-> NilSlice, err |-> ScanError(v, broken), end |-> v.end - 1]
        ELSE IF body[1] \in Obj
        THEN [res |-> NilSlice, err |-> CodecError("UnmarshalTypeError"), end |-> v.end - 1]
        ELSE LET spans == ElemSpans(body, 2)
                 bad == \E k \in 1..Len(spans) : body[spans[k][1]] \notin Obj
             IN  [res |-> Slice(DevicesOf(body, spans)),
                  err |-> IF bad THEN CodecError("UnmarshalTypeError") ELSE NilErr,
                  end |-> v.end - 1]

DecodeDetails(body, broken) ==
    LET v == ScanValue(body, 1)
    IN  IF ~v.ok THEN [res |-> 0, err |-> ScanError(v, broken), end |-> v.end - 1]
        ELSE IF body[1] \in Obj
        THEN [res |-> Payload(body[1]), err |-> NilErr, end |-> v.end - 1]
        ELSE [res |-> 0, err |-> CodecError("UnmarshalTypeError"), end |-> v.end - 1]

\* ------------------------------------------------------------ the client
NilClient == [isNil |-> TRUE, APIEndpoint |-> "", token |-> ""]

\* A configuration function passed to New: it may set the endpoint (ep # "")
\* and it may fail (err # ""); one that does both has changed the client
\* before it reports its error.
Option == [ep : {"", TestEndpoint, AltEndpoint}, err : {"", "e1", "e2"}]
OptSeqs(n) == UNION {[1..k -> Option] : k \in 0..n}
OptionError(e) == [kind |-> "option", code |-> 0, detail |-> e]
ApplyOption(opt, c) ==
    [client |-> IF opt.ep = "" THEN c ELSE [c EXCEPT !.APIEndpoint = opt.ep],
     err |-> IF opt.err = "" THEN NilErr ELSE OptionError(opt.err)]

\* The loop of New over opts from index i on; invoked lists the options called.
RECURSIVE NewLoop(_, _, _, _)
\* (variant: the loop ignores the error of an option)
MutNewLoopKeepsGoing(c, opts, i, invoked) ==
    IF i > Len(opts) THEN [client |-> c, err |-> NilErr, invoked |-> invoked]
    ELSE LET a == ApplyOption(opts[i], c)
         IN  NewLoop(a.client, opts, i + 1, Append(invoked, i))
NewLoop(c, opts, i, invoked) ==
    IF i > Len(opts) THEN [client |-> c, err |-> NilErr, invoked |-> invoked]
    ELSE LET a == ApplyOption(opts[i], c)
         IN  IF a.err # NilErr
             THEN [client |-> NilClient, err |-> a.err, invoked |-> Append(invoked, i)]
             ELSE NewLoop(a.client, opts, i + 1, Append(invoked, i))

NewResult(token, opts) ==
    NewLoop([isNil |-> FALSE, APIEndpoint |-> ProductionAPIEndpoint, token |-> token],
            opts, 1, <<>>)

\* ------------------------------------------------------------ requests
\* fmt.Sprintf of a format with %s verbs: the pieces in order.
Sprintf1(a, lit) == <<a, lit>>
Sprintf2(a, lit, b) == <<a, lit, b>>
Bearer(token) == <<"Bearer ", token>>

\* url.Parse, as http.NewRequest calls it, rejects a control character.
ValidURL(url) == \A i \in 1..Len(url) : url[i] # BadID

Background == "background"
NoReq == [method |-> "", url |-> <<>>, header |-> {}, body |-> <<>>, hasBody |-> FALSE,
          ctx |-> Background]
NewRequest(method, url, hasBody, body) ==
    IF ValidURL(url)
    THEN [err |-> NilErr,
          req |-> [method |-> method, url |-> url, header |-> {}, body |-> body,
                   hasBody |-> hasBody, ctx |-> Background]]
    ELSE [err |-> URLError, req |-> NoReq]
HeaderSet(req, k, v) ==
    [req EXCEPT !.header = {h \in @ : h[1] # k} \cup {<<k, v>>}]
\* (variant: the context is not attached)
MutNoContext(req, ctx) == req
WithContext(req, ctx) == [req EXCEPT !.ctx = ctx]

\* Lines 47-53, 100-106 and 153-163: the request each call hands to Do, or
\* the error it returns before sending anything.
ListDevicesRequest(c, ctx) ==
    LET n == NewRequest("GET", Sprintf1(c.APIEndpoint, "/devices"), FALSE, <<>>)
    IN  IF n.err # NilErr THEN n
        ELSE [n EXCEPT !.req = WithContext(
                 HeaderSet(HeaderSet(@, "Accept", "application/json"),
                           "Authorization", Bearer(c.token)), ctx)]
GetRequest(c, ctx, deviceID) ==
    LET n == NewRequest("GET", Sprintf2(c.APIEndpoint, "/devices/", deviceID), FALSE, <<>>)
    IN  IF n.err # NilErr THEN n
        ELSE [n EXCEPT !.req = WithContext(
                 HeaderSet(HeaderSet(@, "Accept", "application/json"),
                           "Authorization", Bearer(c.token)), ctx)]
\* (variant: Update sets Accept as the reads do)
MutUpdateSetsAccept(c, ctx, deviceID, r) ==
    LET n == NewRequest("PATCH", Sprintf2(c.APIEndpoint, "/devices/", deviceID), TRUE,
                        Encode(r).json)
    IN  IF Encode(r).err # NilErr THEN [err |-> Encode(r).err, req |-> NoReq]
        ELSE IF n.err # NilErr THEN n
        ELSE [n EXCEPT !.req = WithContext(
                 HeaderSet(HeaderSet(HeaderSet(@, "Accept", "application/json"),
                           "Content-Type", "application/json"),
                           "Authorization", Bearer(c.token)), ctx)]
UpdateRequestOf(c, ctx, deviceID, r) ==
    LET e == Encode(r)
        n == NewRequest("PATCH", Sprintf2(c.APIEndpoint, "/devices/", deviceID), TRUE, e.json)
    IN  IF e.err # NilErr THEN [err |-> e.err, req |-> NoReq]
        ELSE IF n.err # NilErr THEN n
        ELSE [n EXCEPT !.req = WithContext(
                 HeaderSet(HeaderSet(@, "Content-Type", "application/json"),
                           "Authorization", Bearer(c.token)), ctx)]

\* ------------------------------------------------------------ responses
\* body is what the stream of the body delivers before it ends, broken
\* whether it ends in a read error instead of EOF.
NoResp == [got |-> FALSE, status |-> 0, body |-> <<>>, broken |-> FALSE, read |-> 0,
           closed |-> FALSE]
Response(status, body, broken) ==
    [got |-> TRUE, status |-> status, body |-> body, broken |-> broken, read |-> 0,
     closed |-> FALSE]
\* resp.StatusCode != http.StatusOK
\* (variant: only a status from 400 on is an error)
MutNotOKFrom400(status) == status >= 400
NotOK(status) == status # StatusOK
\* resp.Body.Close(), deferred as soon as Do has returned a response.
\* (variant: Close on the success path only)
MutCloseOnSuccessOnly(r, err) == IF err = NilErr THEN [r EXCEPT !.closed = TRUE] ELSE r
DeferredClose(r, err) == [r EXCEPT !.closed = TRUE]
\* resp is a local variable of the call: the response Do returned to it.
\* (variant: the response kept where the calls share it)
MutSharedResponse(p, rs) ==
    LET got == {q \in Callers : rs[q].got /\ q # p}
    IN  IF got = {} THEN rs[p] ELSE rs[CHOOSE q \in got : TRUE]
OwnResponse(p, rs) == rs[p]

\* ------------------------------------------------------------ the state
VARIABLES
    ctor,       \* the call of New: its arguments, the options it invoked, its error
    client,     \* the *Client New returned
    pc,         \* per caller: "idle", "sent" (inside c.Client.Do) or "done"
    call,       \* per caller: the operation and its arguments
    req,        \* per caller: the request it built
    ctxErr,     \* per caller: ctx.Err() of its context, "" while it is live
    resp,       \* per caller: the response Do returned to it
    ret,        \* per caller: what the call returned
    transport,  \* the requests the shared *http.Client has in flight
    ndo         \* per caller: how often it called Do
vars == <<ctor, client, pc, call, req, ctxErr, resp, ret, transport, ndo>>

NoCall == [op |-> "", deviceID |-> "", r |-> EmptyUpdate]
NoCtor == [done |-> FALSE, token |-> "", opts |-> <<>>, invoked |-> <<>>, err |-> NilErr]
Constructed(token, opts) ==
    [done |-> TRUE, token |-> token, opts |-> opts,
     invoked |-> NewResult(token, opts).invoked, err |-> NewResult(token, opts).err]

Idle ==
    /\ pc = [p \in Callers |-> "idle"]
    /\ call = [p \in Callers |-> NoCall]
    /\ req = [p \in Callers |-> NoReq]
    /\ ctxErr = [p \in Callers |-> ""]
    /\ resp = [p \in Callers |-> NoResp]
    /\ ret = [p \in Callers |-> NoRet]
    /\ transport = {}
    /\ ndo = [p \in Callers |-> 0]

\* Before New is called.
InitNew == ctor = NoCtor /\ client = NilClient /\ Idle

\* After a successful New(token, opts) with the token in Ts and opts in Os.
InitWith(Ts, Os) ==
    /\ \E t \in Ts, o \in Os :
          /\ NewResult(t, o).err = NilErr
          /\ ctor = Constructed(t, o)
          /\ client = NewResult(t, o).client
    /\ Idle

\* ------------------------------------------------------------ New
New(token, opts) ==
    /\ ~ctor.done
    /\ ctor' = Constructed(token, opts)
    /\ client' = NewResult(token, opts).client
    /\ UNCHANGED <<pc, call, req, ctxErr, resp, ret, transport, ndo>>

\* ------------------------------------------------------------ the calls
\* The call up to c.Client.Do(req): it returns the error of building the
\* request, or hands the request to the transport and blocks.
Start(p, c, b) ==
    /\ pc[p] = "idle"
    /\ ~client.isNil
    /\ call' = [call EXCEPT ![p] = c]
    /\ IF b.err # NilErr
       THEN /\ pc' = [pc EXCEPT ![p] = "done"]
            /\ ret' = [ret EXCEPT ![p] = Ret(NilSlice, NilDetails, b.err)]
            /\ UNCHANGED <<req, transport, ndo>>
       ELSE /\ pc' = [pc EXCEPT ![p] = "sent"]
            /\ req' = [req EXCEPT ![p] = b.req]
            /\ transport' = transport \cup {<<p, b.req>>}
            /\ ndo' = [ndo EXCEPT ![p] = @ + 1]
            /\ UNCHANGED ret
    /\ UNCHANGED <<ctor, client, ctxErr, resp>>

ListDevices(p) ==
    Start(p, [NoCall EXCEPT !.op = "ListDevices"], ListDevicesRequest(client, p))
Get(p, deviceID) ==
    Start(p, [NoCall EXCEPT !.op = "Get", !.deviceID = deviceID],
          GetRequest(client, p, deviceID))
Update(p, deviceID, r) ==
    Start(p, [op |-> "Update", deviceID |-> deviceID, r |-> r],
          UpdateRequestOf(client, p, deviceID, r))

\* The caller cancels the context of its call, or its deadline passes.
Cancel(p) ==
    /\ pc[p] # "done"
    /\ ctxErr[p] = ""
    /\ \E e \in {"context canceled", "context deadline exceeded"} :
          ctxErr' = [ctxErr EXCEPT ![p] = e]
    /\ UNCHANGED <<ctor, client, pc, call, req, resp, ret, transport, ndo>>

\* The context the transport watches for a request is the one attached to it.
CtxDone(rq) == rq.ctx \in Callers /\ ctxErr[rq.ctx] # ""

\* `if err != nil { return nil, err }` after Do, the same in the three calls.
DoReturnsError(p, err) ==
    /\ pc[p] = "sent"
    /\ pc' = [pc EXCEPT ![p] = "done"]
    /\ ret' = [ret EXCEPT ![p] = Ret(NilSlice, NilDetails, err)]
    /\ transport' = transport \ {<<p, req[p]>>}
    /\ UNCHANGED <<ctor, client, call, req, ctxErr, resp, ndo>>
\* Do gives up a request whose context is done.
DoAborts(p) ==
    /\ pc[p] = "sent"
    /\ CtxDone(req[p])
    /\ DoReturnsError(p, TransportError(ctxErr[req[p].ctx]))
\* Do fails for a reason of the network.
DoFails(p) ==
    /\ pc[p] = "sent"
    /\ ~CtxDone(req[p])
    /\ DoReturnsError(p, TransportError("connection refused"))

\* Do returns a response and the call runs to its return:
\* the status check, the decoding of the body, the deferred Close.
\* read is how much of the body had been read from the stream by then: a
\* Decoder reads ahead, at least to the end of the value it returns.
Finish(p, own, out, read) ==
    /\ pc' = [pc EXCEPT ![p] = "done"]
    /\ ret' = [ret EXCEPT ![p] = out]
    /\ resp' = [resp EXCEPT ![p] = DeferredClose([own EXCEPT !.read = read], out.err)]
    /\ transport' = transport \ {<<p, req[p]>>}
    /\ UNCHANGED <<ctor, client, call, req, ctxErr, ndo>>
\* Do returns a response only for a request whose context is not done: of a
\* response and a cancellation that race, the one Do takes comes first.
Answered(p, op) ==
    /\ pc[p] = "sent"
    /\ call[p].op = op
    /\ ~CtxDone(req[p])
ReceivedBy(p, own) == OwnResponse(p, [resp EXCEPT ![p] = own])

ListDevicesReturn(p, Bs, Ks) ==
    /\ Answered(p, "ListDevices")
    /\ \E status \in Statuses, body \in Bs, broken \in Ks :
         LET own == Response(status, body, broken)
             r == ReceivedBy(p, own)
             d == DecodeDevices(r.body, r.broken)
         IN  IF NotOK(r.status)
             THEN Finish(p, own, Ret(NilSlice, NilDetails, StatusError(r.status)), 0)
             ELSE \E n \in d.end..Len(r.body) :
                      Finish(p, own, Ret(d.res, NilDetails, d.err), n)
GetReturn(p, Bs, Ks) ==
    /\ Answered(p, "Get")
    /\ \E status \in Statuses, body \in Bs, broken \in Ks :
         LET own == Response(status, body, broken)
             r == ReceivedBy(p, own)
             d == DecodeDetails(r.body, r.broken)
         IN  IF NotOK(r.status)
             THEN Finish(p, own, Ret(NilSlice, NilDetails, StatusError(r.status)), 0)
             ELSE \E n \in d.end..Len(r.body) :
                      Finish(p, own, Ret(NilSlice, PtrDetails(d.res), d.err), n)
UpdateReturn(p, Bs, Ks) ==
    /\ Answered(p, "Update")
    /\ \E status \in Statuses, body \in Bs, broken \in Ks :
         LET own == Response(status, body, broken)
             r == ReceivedBy(p, own)
         IN  IF NotOK(r.status)
             THEN Finish(p, own, Ret(NilSlice, NilDetails, StatusError(r.status)), 0)
             ELSE Finish(p, own, Ret(NilSlice, NilDetails, NilErr), 0)

\* ------------------------------------------------------ specifications
Step(P, IDs, Rs, Bs, Ks) ==
    \E p \in P :
        \/ ListDevices(p)
        \/ \E id \in IDs : Get(p, id)
        \/ \E id \in IDs, r \in Rs : Update(p, id, r)
        \/ Cancel(p)
        \/ DoAborts(p)
        \/ DoFails(p)
        \/ ListDevicesReturn(p, Bs, Ks)
        \/ GetReturn(p, Bs, Ks)
        \/ UpdateReturn(p, Bs, Ks)

\* The update of the repository's test, an empty one and one Encode rejects.
SomeUpdates ==
    {EmptyUpdate, [EmptyUpdate EXCEPT !.SetTemperatureF = <<"70.5">>],
     [EmptyUpdate EXCEPT !.SetTemperatureF = <<"NaN">>]}

\* One caller, every response body up to MaxBody tokens.
Init == InitWith({"abc"}, {<<>>})
Next == Step({"c1"}, DeviceIDs, SomeUpdates, BodiesUpTo(MaxBody), BOOLEAN)
Spec == Init /\ [][Next]_vars

\* Construction.
NextNew == \E t \in Tokens, o \in OptSeqs(MaxOpts) : New(t, o)
SpecNew == InitNew /\ [][NextNew]_vars

\* The requests of one caller, over every UpdateRequest.
InitReq == InitWith(Tokens, {<<>>, <<[ep |-> TestEndpoint, err |-> ""]>>})
NextReq ==
    \E p \in {"c1"} :
        \/ ListDevices(p)
        \/ \E id \in DeviceIDs : Get(p, id)
        \/ \E id \in DeviceIDs, r \in UpdateRequest : Update(p, id, r)
SpecReq == InitReq /\ [][NextReq]_vars

\* Two concurrent callers.
ConcBodies == {<<>>, <<"[">>, <<"o1">>, <<"[", "o2", "]">>}
NextConc == Step(Callers, {GoodID}, {EmptyUpdate}, ConcBodies, {FALSE})
SpecConc == Init /\ [][NextConc]_vars
\* The transport's wait in Do wakes when the request's context is done.
SpecLive == SpecConc /\ \A p \in Callers : WF_vars(DoAborts(p))

\* ================================================================ claims
Done(p) == pc[p] = "done"
Answer(p) == Done(p) /\ resp[p].got
Op(p) == call[p].op

\* C1: a response whose status is not 200 makes ListDevices, Get and Update
\* return a status error carrying that status, with no decoded value, and
\* nothing of its body is read.
C1_NonOKIsStatusError ==
    \A p \in Callers :
        (Answer(p) /\ resp[p].status # 200) =>
            /\ ret[p].err.kind = "status"
            /\ ret[p].err.code = resp[p].status
            /\ ret[p].devices.isNil
            /\ ret[p].details.isNil
            /\ resp[p].read = 0
C1_Witness ==
    /\ Answer("c1") /\ Op("c1") = "Get" /\ resp["c1"].status = 404
    /\ ret["c1"].err.code = 404 /\ ret["c1"].details.isNil

\* C2: a call ends either in full success (no error, and for ListDevices and
\* Get a value) or in an error with no result value beside it.
C2_NoPartialSuccess ==
    \A p \in Callers :
        Done(p) =>
            IF ret[p].err = NilErr
            THEN /\ Op(p) = "ListDevices" => ~ret[p].devices.isNil
                 /\ Op(p) = "Get" => ~ret[p].details.isNil
            ELSE ret[p].devices.isNil /\ ret[p].details.isNil

\* C3: a 200 response whose body is not one well-formed JSON text makes
\* ListDevices and Get return a codec error.
WellFormedJSON(body) == ScanValue(body, 1).ok /\ ScanValue(body, 1).end = Len(body) + 1
C3_MalformedIsCodecError ==
    \A p \in Callers :
        (Answer(p) /\ resp[p].status = 200 /\ Op(p) \in {"ListDevices", "Get"}
            /\ ~WellFormedJSON(resp[p].body)) =>
            ret[p].err.kind = "codec"

\* C4: New calls the options in order up to the first that fails; it then
\* returns that option's error and no client; if none fails it returns a
\* client with the given token and the endpoint the options left, every
\* option called once.
C4_FirstFail(opts) ==
    {i \in 1..Len(opts) : opts[i].err # "" /\ \A j \in 1..(i - 1) : opts[j].err = ""}
C4_Setters(opts) == {i \in 1..Len(opts) : opts[i].ep # ""}
C4_NewStopsAtFirstFailure ==
    ctor.done =>
        LET opts == ctor.opts
            ff == C4_FirstFail(opts)
            st == C4_Setters(opts)
        IN  IF ff # {}
            THEN \E i \in ff :
                    /\ client.isNil
                    /\ ctor.err.kind = "option" /\ ctor.err.detail = opts[i].err
                    /\ ctor.invoked = [k \in 1..i |-> k]
            ELSE /\ ~client.isNil
                 /\ ctor.err = NilErr
                 /\ ctor.invoked = [k \in 1..Len(opts) |-> k]
                 /\ client.token = ctor.token
                 /\ client.APIEndpoint =
                        IF st = {} THEN "https://api.developer.sleep.me/v1"
                        ELSE opts[CHOOSE i \in st : \A j \in st : j <= i].ep
C4_Witness ==
    /\ ctor.done /\ Len(ctor.opts) = 3
    /\ ctor.opts[1].err = "" /\ ctor.opts[2].err = "e1" /\ ctor.opts[3].err = "e2"
    /\ ctor.invoked = <<1, 2>> /\ client.isNil /\ ctor.err.detail = "e1"

\* C5: the JSON object Update sends has one member for each populated field
\* of the UpdateRequest, with its value, and none (no key, no null) for an
\* unset field; with only SetTemperatureF set it is {"set_temperature_f": v}.
C5_Key ==
    [ThermalControlStatus |-> "thermal_control_status",
     SetTemperatureF |-> "set_temperature_f",
     SetTemperatureC |-> "set_temperature_c",
     DisplayTemperatureUnit |-> "display_temperature_unit",
     TimeZone |-> "time_zone"]
C5_Kind ==
    [ThermalControlStatus |-> "string", SetTemperatureF |-> "number",
     SetTemperatureC |-> "number", DisplayTemperatureUnit |-> "string",
     TimeZone |-> "string"]
C5_UpdateSendsExactlySetFields ==
    \A x \in transport :
        LET p == x[1]
            js == x[2].body
            r == call[p].r
            set == {f \in DOMAIN C5_Key : r[f] # <<>>}
        IN  x[2].method = "PATCH" =>
              /\ Len(js) = Cardinality(set)
              /\ {js[i][1] : i \in 1..Len(js)} = {C5_Key[f] : f \in set}
              /\ \A f \in set : \E i \in 1..Len(js) :
                    js[i] = <<C5_Key[f], <<C5_Kind[f], r[f][1]>>>>
              /\ \A i \in 1..Len(js) : js[i][2][1] # "null"
              /\ set = {"SetTemperatureF"} =>
                    js = <<<<"set_temperature_f", <<"number", r.SetTemperatureF[1]>>>>>>
C5_Witness ==
    \E x \in transport :
        /\ x[2].method = "PATCH"
        /\ call[x[1]].r = [EmptyUpdate EXCEPT !.SetTemperatureF = <<"70.5">>]
        /\ x[2].body = <<<<"set_temperature_f", <<"number", "70.5">>>>>>

\* C6: when ListDevices succeeds, the devices it returns are the elements of
\* the JSON array of the response, as many and in the same order; an empty
\* array gives a successful empty (non-nil) sequence.
C6_ListPreservesArray ==
    \A p \in Callers :
        (Answer(p) /\ Op(p) = "ListDevices" /\ ret[p].err = NilErr) =>
            LET body == resp[p].body
                close == {n \in 1..Len(body) : body[n] = "]"}
            IN  /\ Len(body) >= 2 /\ body[1] = "[" /\ close # {}
                /\ LET n == CHOOSE n \in close : \A m \in close : n <= m
                       inner == SubSeq(body, 2, n - 1)
                       objs == SelectSeq(inner, LAMBDA t : t \in {"o1", "o2"})
                   IN  /\ ~ret[p].devices.isNil
                       /\ Len(ret[p].devices.elems) = (IF n = 2 THEN 0 ELSE (n - 1) \div 2)
                       /\ Len(ret[p].devices.elems) = Len(objs)
                       /\ \A k \in 1..Len(objs) :
                             ret[p].devices.elems[k] = (IF objs[k] = "o1" THEN 1 ELSE 2)
C6_Witness ==
    /\ Answer("c1") /\ Op("c1") = "ListDevices" /\ ret["c1"].err = NilErr
    /\ resp["c1"].body = <<"[", "o2", ",", "o1", "]">>
    /\ ret["c1"].devices.elems = <<2, 1>>

\* C7: every request handed to the transport carries Authorization: Bearer
\* <the token given to New>; one of ListDevices or Get is a GET with Accept:
\* application/json; one of Update is a PATCH to {endpoint}/devices/{id}
\* with Content-Type: application/json and no Accept header.
C7_RequestHeaders ==
    \A x \in transport :
        LET p == x[1]
            rq == x[2]
            values(k) == {h[2] : h \in {g \in rq.header : g[1] = k}}
        IN  /\ values("Authorization") = {<<"Bearer ", ctor.token>>}
            /\ Op(p) \in {"ListDevices", "Get"} =>
                  /\ rq.method = "GET"
                  /\ values("Accept") = {"application/json"}
            /\ Op(p) = "ListDevices" => rq.url = <<client.APIEndpoint, "/devices">>
            /\ Op(p) = "Get" => rq.url = <<client.APIEndpoint, "/devices/", call[p].deviceID>>
            /\ Op(p) = "Update" =>
                  /\ rq.method = "PATCH"
                  /\ rq.url = <<client.APIEndpoint, "/devices/", call[p].deviceID>>
                  /\ values("Content-Type") = {"application/json"}
                  /\ values("Accept") = {}
C7_Witness ==
    \E x \in transport :
        /\ Op(x[1]) = "Update" /\ x[2].method = "PATCH"
        /\ ctor.token = "xyz" /\ client.APIEndpoint = TestEndpoint
        /\ <<"Authorization", <<"Bearer ", "xyz">>>> \in x[2].header

\* C8 as stated: when a call that received a response returns, the body of
\* the response has been read to its end and closed.
C8_BodyConsumedAndClosed ==
    \A p \in Callers :
        Answer(p) => resp[p].closed /\ resp[p].read = Len(resp[p].body)
\* C8 as amended: when a call that received a response returns, the body of
\* the response has been closed, whatever the outcome.
C8_BodyClosed == \A p \in Callers : Answer(p) => resp[p].closed
C8_Witness ==
    /\ Answer("c1") /\ resp["c1"].status = 500 /\ ret["c1"].err.kind = "status"
    /\ resp["c1"].closed /\ resp["c1"].read < Len(resp["c1"].body)

\* C9: under concurrent calls no call changes the client, a step of one
\* call changes nothing of another call but the transport, each call sends
\* the request of its own arguments and its outcome is the one its own
\* response determines.
C9_OwnOutcome ==
    \A p \in Callers :
        /\ \A x \in transport : x[1] = p => x[2] = req[p] /\ x[2].ctx = p
        /\ Answer(p) =>
              LET st == resp[p].status
                  body == resp[p].body
              IN  /\ st # 200 => ret[p].err.kind = "status" /\ ret[p].err.code = st
                  /\ (st = 200 /\ Op(p) = "Update") => ret[p].err = NilErr
                  /\ (st = 200 /\ Op(p) = "ListDevices") =>
                        /\ ret[p].err = NilErr <=> body = <<"[", "o2", "]">>
                        /\ ret[p].err = NilErr => ret[p].devices.elems = <<2>>
                  /\ (st = 200 /\ Op(p) = "Get") =>
                        /\ ret[p].err = NilErr <=> body = <<"o1">>
                        /\ ret[p].err = NilErr => ret[p].details.v = 1
C9_StepIsLocal ==
    /\ client' = client /\ ctor' = ctor
    /\ \E q \in Callers : \A o \in Callers \ {q} :
          /\ pc'[o] = pc[o] /\ call'[o] = call[o] /\ req'[o] = req[o]
          /\ resp'[o] = resp[o] /\ ret'[o] = ret[o] /\ ndo'[o] = ndo[o]
          /\ ctxErr'[o] = ctxErr[o]
C9_CallsAreIndependent == []C9_OwnOutcome /\ [][C9_StepIsLocal]_vars
C9_Witness ==
    /\ Answer("c1") /\ resp["c1"].status = 404 /\ ret["c1"].err.code = 404
    /\ Answer("c2") /\ resp["c2"].status = 200 /\ Op("c2") = "Get"
    /\ ret["c2"].err = NilErr /\ ret["c2"].details.v = 1

\* C10: a call whose context is done while its request is in flight
\* eventually returns the context's error as a transport error, with no
\* result value and no response; no call hands more than one request to
\* the transport.
C10_Cancelled(p) == pc[p] = "sent" /\ ctxErr[p] # ""
C10_Aborted(p) ==
    /\ pc[p] = "done"
    /\ ret[p].err.kind = "transport" /\ ret[p].err.detail = ctxErr[p]
    /\ ret[p].devices.isNil /\ ret[p].details.isNil
    /\ ~resp[p].got
C10_CancelAbortsCall ==
    /\ [](\A p \in Callers : ndo[p] <= 1)
    /\ \A p \in Callers : C10_Cancelled(p) ~> C10_Aborted(p)
C10_Witness ==
    /\ C10_Aborted("c1") /\ Op("c1") = "Update" /\ ndo["c1"] = 1
    /\ ret["c1"].err.detail = "context deadline exceeded"

====
